---- MODULE Spec2Model ----
(***************************************************************************)
(* Model of src/app.py: header detection and corruption marking            *)
(* (print_formatted_output), row segmentation                              *)
(* (separate_rows_by_vertical_gap), column mapping (find_column_for_word)  *)
(* and table assembly (create_structured_table).                           *)
(*                                                                         *)
(* Text is a sequence of one-character strings.  Python's None is the      *)
(* record field none = TRUE (text) or the empty tuple (bbox).  Coordinates *)
(* are integers; every float comparison of the source is done exactly by   *)
(* cross-multiplication.                                                   *)
(***************************************************************************)
EXTENDS Integers, Sequences, FiniteSets, TLC

\* ------------------------------------------------------------------ bounds
\* rows per table drawn by Init
NumRows == 3
\* calls of print_formatted_output on the same coordinates_data
MaxPasses == 2
\* longest word list drawn for the row segmenter
MaxSegWords == 4
\* number of column boundaries drawn for the column mapper
MaxCols == 2
\* largest horizontal coordinate drawn for the column mapper
MaxCoord == 4
\* tables on the page of the several-table runs
NumTables == 2

\* ------------------------------------------------------- program constants
MinKeywords == 3
NewlineLimit == 3
Tolerance == 2
CellTolerance == 2
SampleSize == 10
DefaultHeight == 10
FallbackStride == 100

\* ------------------------------------------------------------------- text
Space == " "
Newline == "\n"

IsSpace(c) == c \in {Space, Newline, "\t"}

IsDigit(c) == c \in {"0", "1", "2", "3", "4", "5", "6", "7", "8", "9"}

LowerChars ==
  <<"a", "b", "c", "d", "e", "f", "g", "h", "i", "j", "k", "l", "m",
    "n", "o", "p", "q", "r", "s", "t", "u", "v", "w", "x", "y", "z">>

UpperChars ==
  <<"A", "B", "C", "D", "E", "F", "G", "H", "I", "J", "K", "L", "M",
    "N", "O", "P", "Q", "R", "S", "T", "U", "V", "W", "X", "Y", "Z">>

IsUpper(c) == \E i \in DOMAIN UpperChars : UpperChars[i] = c

IsLetter(c) == IsUpper(c) \/ \E i \in DOMAIN LowerChars : LowerChars[i] = c

\* re [^\w\s]
IsSymbol(c) == ~IsLetter(c) /\ ~IsDigit(c) /\ c # "_" /\ ~IsSpace(c)

LowerChar(c) ==
  IF IsUpper(c)
  THEN LowerChars[CHOOSE i \in DOMAIN UpperChars : UpperChars[i] = c]
  ELSE c

\* str.lower()
Lower(t) == [i \in DOMAIN t |-> LowerChar(t[i])]

\* k in t
Contains(t, k) ==
  \E i \in 0..(Len(t) - Len(k)) : SubSeq(t, i + 1, i + Len(k)) = k

\* t.startswith(p)
StartsWith(t, p) == Len(t) >= Len(p) /\ SubSeq(t, 1, Len(p)) = p

\* t.strip() != ''
NonBlank(t) == \E i \in DOMAIN t : ~IsSpace(t[i])

\* t.count('\n')
NewlineCount(t) == Cardinality({i \in DOMAIN t : t[i] = Newline})

\* len(t.split())
TokenCount(t) ==
  Cardinality({i \in DOMAIN t : ~IsSpace(t[i]) /\ (i = 1 \/ IsSpace(t[i - 1]))})

\* re.search(r':\s*\S', t)
MetadataPattern(t) ==
  \E i \in DOMAIN t :
    /\ t[i] = ":"
    /\ \E j \in (i + 1)..Len(t) :
         /\ ~IsSpace(t[j])
         /\ \A k \in (i + 1)..(j - 1) : IsSpace(t[k])

MarkPrefix == <<"#", "$", " ">>

MarkTag == <<"#", "$">>

COLUMN_KEYWORDS ==
  << <<"i","t","e","m">>,
     <<"d","e","s","c","r","i","p","t","i","o","n">>,
     <<"p","r","o","d","u","c","t">>,
     <<"n","a","m","e">>,
     <<"p","a","r","t","i","c","u","l","a","r","s">>,
     <<"q","t","y">>,
     <<"q","u","a","n","t","i","t","y">>,
     <<"r","a","t","e">>,
     <<"p","r","i","c","e">>,
     <<"a","m","o","u","n","t">>,
     <<"t","o","t","a","l">>,
     <<"g","s","t">>,
     <<"t","a","x">>,
     <<"h","s","n">>,
     <<"c","o","d","e">>,
     <<"u","n","i","t">>,
     <<"n","e","t">>,
     <<"d","i","s","c","o","u","n","t">> >>

\* ------------------------------------------------------------ data model
NoBox == <<>>

Cell(b, t) == [bbox |-> b, text |-> t, none |-> FALSE]

NoneCell == [bbox |-> NoBox, text |-> <<>>, none |-> TRUE]

\* truthiness of cell_text
Truthy(c) == ~c.none /\ Len(c.text) > 0

HasBox(c) == c.bbox # NoBox

Word(t, x0, top, x1, bottom) ==
  [text |-> t, x0 |-> x0, top |-> top, x1 |-> x1, bottom |-> bottom]

Max(a, b) == IF a >= b THEN a ELSE b

Min(a, b) == IF a <= b THEN a ELSE b

Abs(a) == IF a >= 0 THEN a ELSE 0 - a

\* ---------------------------------------------------------------- sorting
\* sorted(ws, key=lambda w: w[1]) and list.sort(key=lambda w: w[1]): stable
RECURSIVE InsertByX0(_, _)
InsertByX0(sorted, w) ==
  IF sorted = <<>> THEN <<w>>
  ELSE IF sorted[Len(sorted)].x0 <= w.x0 THEN Append(sorted, w)
  ELSE Append(InsertByX0(SubSeq(sorted, 1, Len(sorted) - 1), w), sorted[Len(sorted)])

RECURSIVE SortByX0(_)
SortByX0(ws) ==
  IF ws = <<>> THEN <<>>
  ELSE InsertByX0(SortByX0(SubSeq(ws, 1, Len(ws) - 1)), ws[Len(ws)])

\* (a.top, a.x0) <= (b.top, b.x0)
TopX0LessEq(a, b) == a.top < b.top \/ (a.top = b.top /\ a.x0 <= b.x0)

RECURSIVE InsertByTopX0(_, _)
InsertByTopX0(sorted, w) ==
  IF sorted = <<>> THEN <<w>>
  ELSE IF TopX0LessEq(sorted[Len(sorted)], w) THEN Append(sorted, w)
  ELSE Append(InsertByTopX0(SubSeq(sorted, 1, Len(sorted) - 1), w), sorted[Len(sorted)])

\* sorted(cell_words, key=lambda w: (w[2], w[1])): stable
RECURSIVE SortByTopX0(_)
SortByTopX0(ws) ==
  IF ws = <<>> THEN <<>>
  ELSE InsertByTopX0(SortByTopX0(SubSeq(ws, 1, Len(ws) - 1)), ws[Len(ws)])

RECURSIVE SumSeq(_)
SumSeq(s) == IF s = <<>> THEN 0 ELSE s[1] + SumSeq(Tail(s))

RECURSIVE FilterPositive(_)
FilterPositive(s) ==
  IF s = <<>> THEN <<>>
  ELSE IF s[1] > 0 THEN <<s[1]>> \o FilterPositive(Tail(s))
  ELSE FilterPositive(Tail(s))

\* --------------------------------------------------- find_column_for_word
\* variant: the center test is left out
ColumnMatchesWithoutCenter(word_x0, word_x1, col_x0, col_x1) ==
  LET overlap_start == Max(word_x0, col_x0)
      overlap_end == Min(word_x1, col_x1)
      overlap_width == overlap_end - overlap_start
      word_width == word_x1 - word_x0
      col_width == col_x1 - col_x0
  IN /\ overlap_end > overlap_start
     /\ \/ /\ word_width > 0
           /\ \/ 2 * overlap_width > word_width
              \/ 2 * overlap_width > col_width
        \/ word_x0 >= col_x0 /\ word_x1 <= col_x1

\* the test find_column_for_word applies to one column (x0, x1) = (c0, c1)
ColumnMatches(word_x0, word_x1, col_x0, col_x1) ==
  LET overlap_start == Max(word_x0, col_x0)
      overlap_end == Min(word_x1, col_x1)
      overlap_width == overlap_end - overlap_start
      word_width == word_x1 - word_x0
      col_width == col_x1 - col_x0
  IN /\ overlap_end > overlap_start
     /\ \/ /\ word_width > 0
           /\ \/ 2 * overlap_width > word_width
              \/ 2 * overlap_width > col_width
        \/ word_x0 >= col_x0 /\ word_x1 <= col_x1
        \/ word_x0 + word_x1 >= 2 * col_x0 /\ word_x0 + word_x1 <= 2 * col_x1

\* column indices are 0-based as in the source; -1 is "not found"
RECURSIVE FindColumnFrom(_, _, _, _)
FindColumnFrom(word_x0, word_x1, column_boundaries, col_idx) ==
  IF col_idx >= Len(column_boundaries) THEN -1
  ELSE IF ColumnMatches(word_x0, word_x1,
                        column_boundaries[col_idx + 1][1],
                        column_boundaries[col_idx + 1][2])
  THEN col_idx
  ELSE FindColumnFrom(word_x0, word_x1, column_boundaries, col_idx + 1)

find_column_for_word(word_x0, word_x1, column_boundaries) ==
  FindColumnFrom(word_x0, word_x1, column_boundaries, 0)

\* the closest-center loop (src 214-222 and 293-301): first minimum, as
\* "dist < min_dist" keeps the earlier column on a tie; distances doubled
RECURSIVE ClosestFrom(_, _, _, _, _)
ClosestFrom(x0, x1, column_boundaries, i, best) ==
  IF i >= Len(column_boundaries) THEN best
  ELSE LET dist(k) == Abs((x0 + x1) - (column_boundaries[k + 1][1]
                                       + column_boundaries[k + 1][2]))
       IN IF best = -1 \/ dist(i) < dist(best)
          THEN ClosestFrom(x0, x1, column_boundaries, i + 1, i)
          ELSE ClosestFrom(x0, x1, column_boundaries, i + 1, best)

ClosestColumn(x0, x1, column_boundaries) ==
  ClosestFrom(x0, x1, column_boundaries, 0, -1)

\* ------------------------------------------ separate_rows_by_vertical_gap
\* word_heights of the first up-to-SampleSize sorted words, positive only
SampleHeights(sorted_words) ==
  LET n == Min(Len(sorted_words), SampleSize)
  IN FilterPositive([i \in 1..n |-> sorted_words[i].bottom - sorted_words[i].top])

\* vertical_gap > gap_threshold, gap_threshold = avg_word_height * 0.7
GapExceeds(vertical_gap, word_heights) ==
  IF word_heights = <<>>
  THEN 10 * vertical_gap > 7 * DefaultHeight
  ELSE 10 * vertical_gap * Len(word_heights) > 7 * SumSeq(word_heights)

\* variant: the gap is measured from the bottom of the previous word
RECURSIVE SegmentFromLastBottom(_, _, _, _, _, _)
SegmentFromLastBottom(sorted_words, word_heights, i, rows, current_row, current_row_max_y1) ==
  IF i > Len(sorted_words)
  THEN Append(rows, SortByX0(current_row))
  ELSE LET w == sorted_words[i]
       IN IF GapExceeds(w.top - current_row_max_y1, word_heights)
          THEN SegmentFromLastBottom(sorted_words, word_heights, i + 1,
                                     Append(rows, SortByX0(current_row)), <<w>>, w.bottom)
          ELSE SegmentFromLastBottom(sorted_words, word_heights, i + 1,
                                     rows, Append(current_row, w), w.bottom)

\* the loop of src 112-127 from index i (1-based) on
RECURSIVE SegmentFrom(_, _, _, _, _, _)
SegmentFrom(sorted_words, word_heights, i, rows, current_row, current_row_max_y1) ==
  IF i > Len(sorted_words)
  THEN Append(rows, SortByX0(current_row))
  ELSE LET w == sorted_words[i]
       IN IF GapExceeds(w.top - current_row_max_y1, word_heights)
          THEN SegmentFrom(sorted_words, word_heights, i + 1,
                           Append(rows, SortByX0(current_row)), <<w>>, w.bottom)
          ELSE SegmentFrom(sorted_words, word_heights, i + 1,
                           rows, Append(current_row, w),
                           Max(current_row_max_y1, w.bottom))

separate_rows_by_vertical_gap(cell_words) ==
  IF cell_words = <<>> THEN <<>>
  ELSE LET sorted_words == SortByTopX0(cell_words)
       IN SegmentFrom(sorted_words, SampleHeights(sorted_words), 2,
                      <<>>, <<sorted_words[1]>>, sorted_words[1].bottom)

\* ------------------------------------------------- create_structured_table
\* " ".join(texts)
RECURSIVE JoinTexts(_)
JoinTexts(texts) ==
  IF texts = <<>> THEN <<>>
  ELSE IF Len(texts) = 1 THEN texts[1]
  ELSE texts[1] \o <<Space>> \o JoinTexts(Tail(texts))

\* column_boundaries: (x0, x1) of every header cell that has a bbox
RECURSIVE ColumnBoundaries(_)
ColumnBoundaries(header_cells) ==
  IF header_cells = <<>> THEN <<>>
  ELSE IF HasBox(header_cells[1])
  THEN <<<<header_cells[1].bbox[1], header_cells[1].bbox[3]>>>>
       \o ColumnBoundaries(Tail(header_cells))
  ELSE ColumnBoundaries(Tail(header_cells))

\* current_row_has_marked_cells
RowHasMarked(row_cells) ==
  \E i \in DOMAIN row_cells :
    Truthy(row_cells[i]) /\ StartsWith(row_cells[i].text, MarkTag)

RowHasBox(row_cells) == \E i \in DOMAIN row_cells : HasBox(row_cells[i])

\* row_min_y / raw_row_min_y, for a row that has a bbox
RowMinY(row_cells) ==
  LET tops == {row_cells[i].bbox[2] : i \in {j \in DOMAIN row_cells : HasBox(row_cells[j])}}
  IN CHOOSE y \in tops : \A z \in tops : y <= z

\* row_max_y / raw_row_max_y, for a row that has a bbox
RowMaxY(row_cells) ==
  LET bots == {row_cells[i].bbox[4] : i \in {j \in DOMAIN row_cells : HasBox(row_cells[j])}}
  IN CHOOSE y \in bots : \A z \in bots : y >= z

\* the three-way vertical overlap test
InSpan(w, min_y, max_y) ==
  \/ w.top >= min_y - Tolerance /\ w.top <= max_y + Tolerance
  \/ w.bottom >= min_y - Tolerance /\ w.bottom <= max_y + Tolerance
  \/ w.top <= min_y - Tolerance /\ w.bottom >= max_y + Tolerance

\* words_in_this_original_row / words_in_raw_row
WordsInSpan(page_words, min_y, max_y) ==
  LET Test(w) == InSpan(w, min_y, max_y)
  IN SelectSeq(page_words, Test)

MinTop(ws) ==
  CHOOSE y \in {ws[i].top : i \in DOMAIN ws} : \A i \in DOMAIN ws : y <= ws[i].top

\* variant: no nearest-center fallback for a word find_column_for_word rejects
WordColumnNoFallback(w, column_boundaries) ==
  find_column_for_word(w.x0, w.x1, column_boundaries)

\* the column a word of a sub-row goes to
WordColumn(w, column_boundaries) ==
  LET col_idx == find_column_for_word(w.x0, w.x1, column_boundaries)
  IN IF col_idx # -1 THEN col_idx
     ELSE ClosestColumn(w.x0, w.x1, column_boundaries)

\* texts of the words of sub_row_words that go to column col_idx, in order
RECURSIVE TextsInColumn(_, _, _)
TextsInColumn(sub_row_words, column_boundaries, col_idx) ==
  IF sub_row_words = <<>> THEN <<>>
  ELSE IF WordColumn(sub_row_words[1], column_boundaries) = col_idx
  THEN <<sub_row_words[1].text>>
       \o TextsInColumn(Tail(sub_row_words), column_boundaries, col_idx)
  ELSE TextsInColumn(Tail(sub_row_words), column_boundaries, col_idx)

StructuredSubRow(sub_row_words, column_boundaries) ==
  [c \in 1..Len(column_boundaries) |->
     JoinTexts(TextsInColumn(sub_row_words, column_boundaries, c - 1))]

AnyNonBlank(row) == \E c \in DOMAIN row : NonBlank(row[c])

\* sub_row_y_pos
SubRowYPos(sub_row_words, structured_sub_row, row_min_y) ==
  LET joined == JoinTexts(structured_sub_row)
      Test(w) == Contains(joined, w.text)
      words_for_sub_row_y_pos == SelectSeq(sub_row_words, Test)
  IN IF words_for_sub_row_y_pos # <<>> THEN MinTop(words_for_sub_row_y_pos)
     ELSE row_min_y

\* the entries one marked source row appends to rows_with_positions; src is
\* the index of the source row, kept beside the entry for the properties
RECURSIVE SubRowEntries(_, _, _, _)
SubRowEntries(logical_sub_rows, column_boundaries, row_min_y, original_row_idx) ==
  IF logical_sub_rows = <<>> THEN <<>>
  ELSE LET structured_sub_row == StructuredSubRow(logical_sub_rows[1], column_boundaries)
           rest == SubRowEntries(Tail(logical_sub_rows), column_boundaries,
                                 row_min_y, original_row_idx)
       IN IF AnyNonBlank(structured_sub_row)
          THEN <<[pos |-> SubRowYPos(logical_sub_rows[1], structured_sub_row, row_min_y),
                  row |-> structured_sub_row,
                  src |-> original_row_idx,
                  marked |-> TRUE]>> \o rest
          ELSE rest

MarkedRowEntries(row_cells, column_boundaries, page_words, original_row_idx) ==
  IF ~RowHasBox(row_cells) THEN <<>>
  ELSE LET row_min_y == RowMinY(row_cells)
           words_in_this_original_row ==
             WordsInSpan(page_words, row_min_y, RowMaxY(row_cells))
       IN SubRowEntries(separate_rows_by_vertical_gap(words_in_this_original_row),
                        column_boundaries, row_min_y, original_row_idx)

\* variant: the first overlapping column is taken
RECURSIVE FirstOverlapFrom(_, _, _, _, _, _)
FirstOverlapFrom(cell_x0, cell_x1, column_boundaries, i, best_col_idx, max_overlap_width) ==
  IF i >= Len(column_boundaries) THEN best_col_idx
  ELSE IF Min(cell_x1, column_boundaries[i + 1][2]) > Max(cell_x0, column_boundaries[i + 1][1])
  THEN i
  ELSE FirstOverlapFrom(cell_x0, cell_x1, column_boundaries, i + 1,
                        best_col_idx, max_overlap_width)

\* the cell-form column mapping, step 1: best horizontal overlap
RECURSIVE BestOverlapFrom(_, _, _, _, _, _)
BestOverlapFrom(cell_x0, cell_x1, column_boundaries, i, best_col_idx, max_overlap_width) ==
  IF i >= Len(column_boundaries) THEN best_col_idx
  ELSE LET overlap_x_start == Max(cell_x0, column_boundaries[i + 1][1])
           overlap_x_end == Min(cell_x1, column_boundaries[i + 1][2])
           overlap_width == overlap_x_end - overlap_x_start
       IN IF overlap_x_end > overlap_x_start /\ overlap_width > max_overlap_width
          THEN BestOverlapFrom(cell_x0, cell_x1, column_boundaries, i + 1, i, overlap_width)
          ELSE BestOverlapFrom(cell_x0, cell_x1, column_boundaries, i + 1,
                               best_col_idx, max_overlap_width)

\* assigned_col of a cell with a bbox (-1 when both steps fail)
CellColumn(cell_x0, cell_x1, column_boundaries) ==
  LET best_col_idx == BestOverlapFrom(cell_x0, cell_x1, column_boundaries, 0, -1, 0)
  IN IF best_col_idx # -1 THEN best_col_idx
     ELSE ClosestColumn(cell_x0, cell_x1, column_boundaries)

\* the column a cell of an unmarked row is appended to (0-based)
TargetColumn(cell, column_boundaries) ==
  IF HasBox(cell)
  THEN LET assigned_col == CellColumn(cell.bbox[1], cell.bbox[3], column_boundaries)
       IN IF assigned_col # -1 THEN assigned_col ELSE 0
  ELSE 0

\* variant: a cell without a bbox is skipped like a cell without text
RECURSIVE MapCellsSkippingNoBox(_, _, _, _)
MapCellsSkippingNoBox(row_cells, column_boundaries, i, mapped_raw_row) ==
  IF i > Len(row_cells) THEN mapped_raw_row
  ELSE IF row_cells[i].none \/ ~HasBox(row_cells[i])
  THEN MapCellsSkippingNoBox(row_cells, column_boundaries, i + 1, mapped_raw_row)
  ELSE LET col == TargetColumn(row_cells[i], column_boundaries) + 1
           new == IF mapped_raw_row[col] # <<>>
                  THEN mapped_raw_row[col] \o <<Space>> \o row_cells[i].text
                  ELSE row_cells[i].text
       IN MapCellsSkippingNoBox(row_cells, column_boundaries, i + 1,
                                [mapped_raw_row EXCEPT ![col] = new])

\* mapped_raw_row after the cells from index i (1-based) on are processed
RECURSIVE MapCellsFrom(_, _, _, _)
MapCellsFrom(row_cells, column_boundaries, i, mapped_raw_row) ==
  IF i > Len(row_cells) THEN mapped_raw_row
  ELSE IF row_cells[i].none
  THEN MapCellsFrom(row_cells, column_boundaries, i + 1, mapped_raw_row)
  ELSE LET col == TargetColumn(row_cells[i], column_boundaries) + 1
           new == IF mapped_raw_row[col] # <<>>
                  THEN mapped_raw_row[col] \o <<Space>> \o row_cells[i].text
                  ELSE row_cells[i].text
       IN MapCellsFrom(row_cells, column_boundaries, i + 1,
                       [mapped_raw_row EXCEPT ![col] = new])

MappedRawRow(row_cells, column_boundaries) ==
  MapCellsFrom(row_cells, column_boundaries, 1,
               [c \in 1..Len(column_boundaries) |-> <<>>])

\* raw_row_y_pos
RawRowYPos(row_cells, page_words, original_row_idx) ==
  LET words_in_raw_row ==
        IF RowHasBox(row_cells)
        THEN WordsInSpan(page_words, RowMinY(row_cells), RowMaxY(row_cells))
        ELSE <<>>
  IN IF words_in_raw_row # <<>> THEN MinTop(words_in_raw_row)
     ELSE original_row_idx * FallbackStride

\* variant: an all-blank mapped row is kept
UnmarkedRowEntriesKeepBlank(row_cells, column_boundaries, page_words, original_row_idx) ==
  <<[pos |-> RawRowYPos(row_cells, page_words, original_row_idx),
     row |-> MappedRawRow(row_cells, column_boundaries),
     src |-> original_row_idx,
     marked |-> FALSE]>>

UnmarkedRowEntries(row_cells, column_boundaries, page_words, original_row_idx) ==
  LET mapped_raw_row == MappedRawRow(row_cells, column_boundaries)
  IN IF AnyNonBlank(mapped_raw_row)
     THEN <<[pos |-> RawRowYPos(row_cells, page_words, original_row_idx),
             row |-> mapped_raw_row,
             src |-> original_row_idx,
             marked |-> FALSE]>>
     ELSE <<>>

\* what one source row appends to rows_with_positions
RowEntries(row_cells, column_boundaries, page_words, original_row_idx) ==
  IF RowHasMarked(row_cells)
  THEN MarkedRowEntries(row_cells, column_boundaries, page_words, original_row_idx)
  ELSE UnmarkedRowEntries(row_cells, column_boundaries, page_words, original_row_idx)

RECURSIVE CollectFrom(_, _, _, _)
CollectFrom(table_rows, column_boundaries, page_words, original_row_idx) ==
  IF original_row_idx >= Len(table_rows) THEN <<>>
  ELSE RowEntries(table_rows[original_row_idx + 1], column_boundaries,
                  page_words, original_row_idx)
       \o CollectFrom(table_rows, column_boundaries, page_words, original_row_idx + 1)

\* rows_with_positions.sort(key=lambda x: x[0]): stable
RECURSIVE InsertByPos(_, _)
InsertByPos(sorted, e) ==
  IF sorted = <<>> THEN <<e>>
  ELSE IF sorted[Len(sorted)].pos <= e.pos THEN Append(sorted, e)
  ELSE Append(InsertByPos(SubSeq(sorted, 1, Len(sorted) - 1), e), sorted[Len(sorted)])

RECURSIVE SortByPos(_)
SortByPos(es) ==
  IF es = <<>> THEN <<>>
  ELSE InsertByPos(SortByPos(SubSeq(es, 1, Len(es) - 1)), es[Len(es)])

\* rows_with_positions after the final sort
RowsWithPositions(table_rows, header_row_index, page_words) ==
  IF header_row_index = -1 \/ header_row_index >= Len(table_rows) THEN <<>>
  ELSE LET column_boundaries == ColumnBoundaries(table_rows[header_row_index + 1])
       IN IF column_boundaries = <<>> THEN <<>>
          ELSE SortByPos(CollectFrom(table_rows, column_boundaries, page_words, 0))

\* final_structured_table
create_structured_table(table_rows, header_row_index, page_words) ==
  LET rows_with_positions == RowsWithPositions(table_rows, header_row_index, page_words)
  IN [k \in 1..Len(rows_with_positions) |-> rows_with_positions[k].row]

\* ------------------------------------ print_formatted_output: header scan
\* number of COLUMN_KEYWORDS that occur in the lower-cased text t
KeywordHits(t) ==
  Cardinality({k \in DOMAIN COLUMN_KEYWORDS : Contains(t, COLUMN_KEYWORDS[k])})

\* row_text_content: the lower-cased truthy cell texts, in cell order
RECURSIVE RowTextContent(_)
RowTextContent(row_cells) ==
  IF row_cells = <<>> THEN <<>>
  ELSE IF Truthy(row_cells[1])
  THEN <<Lower(row_cells[1].text)>> \o RowTextContent(Tail(row_cells))
  ELSE RowTextContent(Tail(row_cells))

RECURSIVE MatchedKeywordCount(_)
MatchedKeywordCount(row_text_content) ==
  IF row_text_content = <<>> THEN 0
  ELSE (IF NonBlank(row_text_content[1]) THEN KeywordHits(row_text_content[1]) ELSE 0)
       + MatchedKeywordCount(Tail(row_text_content))

RowContainsMetadataPattern(row_text_content) ==
  \E i \in DOMAIN row_text_content :
    NonBlank(row_text_content[i]) /\ MetadataPattern(row_text_content[i])

\* variant: the metadata pattern is not consulted
RowIsHeaderIgnoringMetadata(row_cells) ==
  MatchedKeywordCount(RowTextContent(row_cells)) >= MinKeywords

\* row_is_header
RowIsHeader(row_cells) ==
  LET row_text_content == RowTextContent(row_cells)
  IN /\ MatchedKeywordCount(row_text_content) >= MinKeywords
     /\ ~RowContainsMetadataPattern(row_text_content)

\* variant: the first qualifying row is kept
HeaderIndexFirstWins(is_header, row_idx, header_row_index) ==
  IF is_header /\ header_row_index = -1 THEN row_idx ELSE header_row_index

\* header_row_index after the test of src 396-399 on row row_idx
HeaderIndexAfter(is_header, row_idx, header_row_index) ==
  IF is_header THEN row_idx ELSE header_row_index

\* none_count_in_row
NoneCount(row_cells) == Cardinality({i \in DOMAIN row_cells : ~HasBox(row_cells[i])})

\* --------------------------------- print_formatted_output: marking a cell
\* should_mark_based_on_content_and_newlines
MarkOnContentAndNewlines(cell) ==
  /\ Truthy(cell)
  /\ NewlineCount(cell.text) > NewlineLimit
  /\ \E i \in DOMAIN cell.text : IsDigit(cell.text[i])
  /\ \E i \in DOMAIN cell.text : IsLetter(cell.text[i])
  /\ \E i \in DOMAIN cell.text : IsSymbol(cell.text[i])
  /\ TokenCount(cell.text) > 1

WordInCell(w, bbox) ==
  /\ w.x0 >= bbox[1] - CellTolerance
  /\ w.x1 <= bbox[3] + CellTolerance
  /\ w.top >= bbox[2] - CellTolerance
  /\ w.bottom <= bbox[4] + CellTolerance

WordsInCell(page_words, bbox) ==
  LET Test(w) == WordInCell(w, bbox)
  IN SelectSeq(page_words, Test)

\* gap between consecutive words k and k+1
Gap(ws, k) == ws[k + 1].x0 - ws[k].x1

WidthSum(ws) == SumSeq([k \in DOMAIN ws |-> ws[k].x1 - ws[k].x0])

\* some gap > avg_word_width * 1.5, avg_word_width = sum / n
MarkOnHorizontalGap(ws, avg) ==
  \E k \in 1..(Len(ws) - 1) : 2 * Gap(ws, k) * avg.n > 3 * avg.sum

\* total_gap_in_cell > avg_word_width
MarkOnSumOfGaps(ws, avg) ==
  SumSeq([k \in 1..(Len(ws) - 1) |-> Gap(ws, k)]) * avg.n > avg.sum

Unbound == [bound |-> FALSE, val |-> <<>>]

UnboundAvg == [bound |-> FALSE, sum |-> 0, n |-> 0]

\* does the cell enter the word-collection block of src 423-446
CollectsWords(cell) == Truthy(cell) /\ HasBox(cell)

\* current_cell_words after the block of src 423-446 (ccw before it)
CellWordsAfter(cell, page_words, ccw) ==
  IF CollectsWords(cell)
  THEN LET found == WordsInCell(page_words, cell.bbox)
       IN [bound |-> TRUE, val |-> IF Len(found) > 1 THEN SortByX0(found) ELSE found]
  ELSE ccw

\* avg_word_width after the block of src 423-446 (avg before it)
AvgAfter(cell, page_words, avg) ==
  IF CollectsWords(cell) /\ Len(WordsInCell(page_words, cell.bbox)) > 1
  THEN LET found == WordsInCell(page_words, cell.bbox)
       IN [bound |-> TRUE, sum |-> WidthSum(found), n |-> Len(found)]
  ELSE avg

\* one iteration of the loop of src 406-461 on one cell; err: reading
\* current_cell_words before any assignment (UnboundLocalError at src 450)
MarkCell(cell, page_words, ccw, avg) ==
  LET ccw2 == CellWordsAfter(cell, page_words, ccw)
      avg2 == AvgAfter(cell, page_words, avg)
      should_mark_based_on_horizontal_gap ==
        /\ CollectsWords(cell)
        /\ Len(ccw2.val) > 1
        /\ MarkOnHorizontalGap(ccw2.val, avg2)
      should_mark_based_on_sum_of_gaps ==
        /\ ccw2.bound
        /\ Len(ccw2.val) > 1
        /\ MarkOnSumOfGaps(ccw2.val, avg2)
      mark ==
        /\ \/ MarkOnContentAndNewlines(cell)
           \/ should_mark_based_on_horizontal_gap
           \/ should_mark_based_on_sum_of_gaps
        /\ Truthy(cell)
        /\ NonBlank(cell.text)
  IN IF ~ccw2.bound
     THEN [cell |-> cell, ccw |-> ccw2, avg |-> avg2, err |-> TRUE]
     ELSE [cell |-> IF mark THEN [cell EXCEPT !.text = MarkPrefix \o cell.text] ELSE cell,
           ccw |-> ccw2, avg |-> avg2, err |-> FALSE]

\* the loop of src 406-461 from cell i (1-based) on; stops at the error
RECURSIVE MarkCellsFrom(_, _, _, _, _)
MarkCellsFrom(row_cells, i, page_words, ccw, avg) ==
  IF i > Len(row_cells)
  THEN [row |-> row_cells, ccw |-> ccw, avg |-> avg, err |-> FALSE]
  ELSE LET r == MarkCell(row_cells[i], page_words, ccw, avg)
       IN IF r.err
          THEN [row |-> row_cells, ccw |-> r.ccw, avg |-> r.avg, err |-> TRUE]
          ELSE MarkCellsFrom([row_cells EXCEPT ![i] = r.cell], i + 1,
                             page_words, r.ccw, r.avg)

\* one iteration of the row loop of src 356-472 on row_cells, from the values
\* the locals have when the iteration starts
ScanRowOutcome(row_cells, row_idx, found, hidx, page_words, ccw, avg) ==
  LET is_header == RowIsHeader(row_cells)
      found2 == found \/ is_header
      hidx2 == HeaderIndexAfter(is_header, row_idx, hidx)
      marking == found2 /\ row_idx > hidx2 /\ NoneCount(row_cells) > 1
      m == IF marking
           THEN MarkCellsFrom(row_cells, 1, page_words, ccw, avg)
           ELSE [row |-> row_cells, ccw |-> ccw, avg |-> avg, err |-> FALSE]
  IN [found |-> found2, hidx |-> hidx2, row |-> m.row,
      ccw |-> m.ccw, avg |-> m.avg, err |-> m.err]

\* the row loop of src 356-472 on a whole table from row i (0-based) on;
\* stops at the error
RECURSIVE ScanTableFrom(_, _, _, _, _, _, _)
ScanTableFrom(table_rows, i, found, hidx, page_words, ccw, avg) ==
  IF i >= Len(table_rows)
  THEN [rows |-> table_rows, err |-> FALSE]
  ELSE LET o == ScanRowOutcome(table_rows[i + 1], i, found, hidx, page_words, ccw, avg)
           scanned == [table_rows EXCEPT ![i + 1] = o.row]
       IN IF o.err
          THEN [rows |-> scanned, err |-> TRUE]
          ELSE ScanTableFrom(scanned, i + 1, o.found, o.hidx, page_words, o.ccw, o.avg)

\* ------------------------------------------------------------------ inputs
T_Item == <<"I", "t", "e", "m">>
T_Qty == <<"Q", "t", "y">>
T_Rate == <<"R", "a", "t", "e">>
T_item == <<"i", "t", "e", "m">>
T_qty == <<"q", "t", "y">>
T_rate == <<"r", "a", "t", "e">>
T_meta == <<"q", "t", "y", ":", " ", "5">>
T_two == <<"a", " ", "b">>
T_merged == <<"a", "\n", "1", "\n", "-", "\n", "\n", "b">>
T_y == <<"y">>
T_z == <<"z">>
T_blank == <<" ">>

\* horizontal spans of pool cells: three columns and a cell spanning them
B0 == <<0, 10>>
B1 == <<10, 20>>
B2 == <<20, 30>>
BW == <<0, 30>>

\* pool cells carry a horizontal span; MakeTable adds the row's vertical span
PoolCell(xs, t) == [xs |-> xs, text |-> t, none |-> FALSE]

PoolNone == [xs |-> <<>>, text |-> <<>>, none |-> TRUE]

\* a header row, and one whose cells have no bbox
HeaderRow == <<PoolCell(B0, T_Item), PoolCell(B1, T_Qty), PoolCell(B2, T_Rate)>>

HeaderRowNoBox == <<PoolCell(<<>>, T_item), PoolCell(<<>>, T_qty), PoolCell(<<>>, T_rate)>>

\* three keywords beside a 'key: value' cell
MetadataRow == <<PoolCell(B0, T_Item), PoolCell(B1, T_meta), PoolCell(B2, T_rate)>>

\* one detected cell spanning the three columns, the other cells null
WideRow == <<PoolCell(BW, T_two), PoolNone, PoolNone>>

MergedRow == <<PoolCell(BW, T_merged), PoolCell(<<>>, T_y), PoolNone>>

\* a row that starts with a null cell
NullFirstRow == <<PoolNone, PoolCell(<<>>, T_y), PoolCell(B2, T_z)>>

BlankRow == <<PoolCell(<<>>, T_blank), PoolCell(B1, <<>>), PoolCell(B2, T_blank)>>

RowPool ==
  {HeaderRow, MetadataRow, HeaderRowNoBox, WideRow, MergedRow, NullFirstRow, BlankRow}

\* detected rows are stacked top to bottom, each 20 units high
MakeCell(pc, r) ==
  [bbox |-> IF pc.xs = <<>> THEN NoBox
            ELSE <<pc.xs[1], 20 * (r - 1), pc.xs[2], 20 * r>>,
   text |-> pc.text,
   none |-> pc.none]

MakeTable(pool_rows) ==
  [r \in DOMAIN pool_rows |->
     [c \in DOMAIN pool_rows[r] |-> MakeCell(pool_rows[r][c], r)]]

\* a table whose first row is the page's row number first + 1
MakeTableAt(pool_rows, first) ==
  [r \in DOMAIN pool_rows |->
     [c \in DOMAIN pool_rows[r] |-> MakeCell(pool_rows[r][c], first + r)]]

\* the tables a page may hold besides one another: a header and a row below it
TablePool ==
  { <<HeaderRow, MergedRow>>,
    <<HeaderRow, WideRow>>,
    <<HeaderRow, NullFirstRow>>,
    <<NullFirstRow, HeaderRow>> }

\* the tables of a page, one below the other
MakePage(pool_tables) ==
  [t \in DOMAIN pool_tables |->
     MakeTableAt(pool_tables[t],
                 SumSeq([u \in 1..(t - 1) |-> Len(pool_tables[u])]))]

\* page words the extractor may report: two far-apart words on one line of
\* the second row, a word lower in that row, a word in the third row
WordPool ==
  << Word(<<"a">>, 1, 23, 3, 26),
     Word(<<"b">>, 21, 23, 23, 26),
     Word(<<"c">>, 11, 31, 13, 34),
     Word(<<"d">>, 1, 43, 3, 46) >>

\* the two words of the first line are reported together
WordGroups == {{1, 2}, {3}, {4}}

PickWords(S) ==
  LET Test(w) == \E i \in S : WordPool[i] = w
  IN SelectSeq(WordPool, Test)

\* ------------------------------------------------------------------- state
VARIABLES
  tables,                 \* page_data['tables'] of the one page
  words,                  \* page_data['words']
  pc,                     \* "scan", "end_table", "done", "error", or a pure-function phase
  passes,                 \* calls of print_formatted_output so far
  table_idx,              \* table_idx of the loop of src 351
  row_idx,                \* row_idx of the loop of src 356
  header_found_in_table,
  header_row_index,
  current_cell_words,     \* the local of src 424, unbound until first assigned
  avg_word_width,         \* the local of src 438, as the pair sum, n
  all_structured_tables,
  cst_call,               \* arguments and result of the last create_structured_table call
  fn_in,                  \* arguments of a direct call of one of the helper functions
  fn_out                  \* its return value

vars ==
  <<tables, words, pc, passes, table_idx, row_idx, header_found_in_table,
    header_row_index, current_cell_words, avg_word_width,
    all_structured_tables, cst_call, fn_in, fn_out>>

NoCall ==
  [called |-> FALSE, table_rows |-> <<>>, header_row_index |-> -1,
   page_words |-> <<>>, rows_with_positions |-> <<>>, result |-> <<>>]

Init ==
  /\ \E pool_rows \in [1..NumRows -> RowPool] : tables = <<MakeTable(pool_rows)>>
  /\ \E G \in SUBSET WordGroups : words = PickWords(UNION G)
  /\ pc = "scan"
  /\ passes = 1
  /\ table_idx = 0
  /\ row_idx = 0
  /\ header_found_in_table = FALSE
  /\ header_row_index = -1
  /\ current_cell_words = Unbound
  /\ avg_word_width = UnboundAvg
  /\ all_structured_tables = <<>>
  /\ cst_call = NoCall
  /\ fn_in = <<>>
  /\ fn_out = <<>>

\* one iteration of the row loop of src 356-472
ScanRow ==
  /\ pc = "scan"
  /\ LET o == ScanRowOutcome(tables[table_idx + 1][row_idx + 1], row_idx,
                             header_found_in_table, header_row_index, words,
                             current_cell_words, avg_word_width)
     IN /\ header_found_in_table' = o.found
        /\ header_row_index' = o.hidx
        /\ tables' = [tables EXCEPT ![table_idx + 1][row_idx + 1] = o.row]
        /\ current_cell_words' = o.ccw
        /\ avg_word_width' = o.avg
        /\ IF o.err
           THEN pc' = "error" /\ row_idx' = row_idx
           ELSE IF row_idx + 1 < Len(tables[table_idx + 1])
           THEN pc' = "scan" /\ row_idx' = row_idx + 1
           ELSE pc' = "end_table" /\ row_idx' = row_idx
  /\ UNCHANGED <<words, passes, table_idx, all_structured_tables, cst_call, fn_in, fn_out>>

\* src 474-478, then the next table of the page or the end of the page loop
EndTable ==
  /\ pc = "end_table"
  /\ LET table_rows == tables[table_idx + 1]
         structured_table == create_structured_table(table_rows, header_row_index, words)
     IN IF header_found_in_table
        THEN /\ cst_call' =
                  [called |-> TRUE, table_rows |-> table_rows,
                   header_row_index |-> header_row_index, page_words |-> words,
                   rows_with_positions |->
                     RowsWithPositions(table_rows, header_row_index, words),
                   result |-> structured_table]
             /\ all_structured_tables' =
                  IF structured_table # <<>>
                  THEN Append(all_structured_tables, structured_table)
                  ELSE all_structured_tables
        ELSE UNCHANGED <<cst_call, all_structured_tables>>
  /\ IF table_idx + 1 < Len(tables)
     THEN /\ pc' = "scan"
          /\ table_idx' = table_idx + 1
          /\ row_idx' = 0
          /\ header_found_in_table' = FALSE
          /\ header_row_index' = -1
     ELSE /\ pc' = "done"
          /\ UNCHANGED <<table_idx, row_idx, header_found_in_table, header_row_index>>
  /\ UNCHANGED <<tables, words, passes, current_cell_words, avg_word_width, fn_in, fn_out>>

\* print_formatted_output called again on the same coordinates_data: the
\* locals start afresh, the cells keep the marks of the earlier call
Reinvoke ==
  /\ pc = "done"
  /\ passes < MaxPasses
  /\ passes' = passes + 1
  /\ pc' = "scan"
  /\ table_idx' = 0
  /\ row_idx' = 0
  /\ header_found_in_table' = FALSE
  /\ header_row_index' = -1
  /\ current_cell_words' = Unbound
  /\ avg_word_width' = UnboundAvg
  /\ all_structured_tables' = <<>>
  /\ cst_call' = NoCall
  /\ UNCHANGED <<tables, words, fn_in, fn_out>>

Next == ScanRow \/ EndTable \/ Reinvoke

Spec == Init /\ [][Next]_vars

\* a page with several tables, print_formatted_output called once
InitTables ==
  /\ \E pool_tables \in [1..NumTables -> TablePool] : tables = MakePage(pool_tables)
  /\ \E G \in SUBSET WordGroups : words = PickWords(UNION G)
  /\ pc = "scan"
  /\ passes = 1
  /\ table_idx = 0
  /\ row_idx = 0
  /\ header_found_in_table = FALSE
  /\ header_row_index = -1
  /\ current_cell_words = Unbound
  /\ avg_word_width = UnboundAvg
  /\ all_structured_tables = <<>>
  /\ cst_call = NoCall
  /\ fn_in = <<>>
  /\ fn_out = <<>>

NextTables == ScanRow \/ EndTable

SpecTables == InitTables /\ [][NextTables]_vars

\* --------------------------------------- the helper functions on their own
\* the pipeline variables while a helper function is exercised directly
NoPipeline ==
  /\ tables = <<>>
  /\ words = <<>>
  /\ passes = 0
  /\ table_idx = 0
  /\ row_idx = 0
  /\ header_found_in_table = FALSE
  /\ header_row_index = -1
  /\ current_cell_words = Unbound
  /\ avg_word_width = UnboundAvg
  /\ all_structured_tables = <<>>
  /\ cst_call = NoCall

PipelineVars ==
  <<tables, words, passes, table_idx, row_idx, header_found_in_table,
    header_row_index, current_cell_words, avg_word_width,
    all_structured_tables, cst_call>>

\* horizontal spans x0 <= x1 of words and cells over the coordinates 0..MaxCoord
Spans == {xs \in (0..MaxCoord) \X (0..MaxCoord) : xs[1] <= xs[2]}

\* header cells have positive width
ColumnSpans == {xs \in Spans : xs[1] < xs[2]}

BoundaryLists == UNION {[1..n -> ColumnSpans] : n \in 1..MaxCols}

InitMap ==
  /\ NoPipeline
  /\ pc = "map_input"
  /\ \E xs \in Spans, cb \in BoundaryLists :
       fn_in = [x0 |-> xs[1], x1 |-> xs[2], column_boundaries |-> cb]
  /\ fn_out = <<>>

\* find_column_for_word(x0, x1, column_boundaries)
CallFindColumn ==
  /\ pc = "map_input"
  /\ pc' = "word_mapped"
  /\ fn_out' = find_column_for_word(fn_in.x0, fn_in.x1, fn_in.column_boundaries)
  /\ UNCHANGED <<fn_in, PipelineVars>>

\* the column an unmarked row's cell with bbox (x0, 0, x1, 20) is placed in
CallCellColumn ==
  /\ pc = "map_input"
  /\ pc' = "cell_mapped"
  /\ fn_out' = TargetColumn(Cell(<<fn_in.x0, 0, fn_in.x1, 20>>, T_y),
                            fn_in.column_boundaries)
  /\ UNCHANGED <<fn_in, PipelineVars>>

NextMap == CallFindColumn \/ CallCellColumn

SpecMap == InitMap /\ [][NextMap]_vars

\* words of the segmenter's inputs: text, x0, top, height
SegWord(t, x0, top, h) == Word(<<t>>, x0, top, x0 + 2, top + h)

SegPool ==
  { SegWord("a", 5, 0, 10), SegWord("b", 0, 1, 10), SegWord("c", 3, 2, 10),
    SegWord("d", 1, 20, 10), SegWord("e", 2, 3, 0), SegWord("f", 0, 15, 3),
    SegWord("g", 0, 11, 0) }

\* ten flat words on one line, a tall word sorted after them, a word below:
\* the height sample stops before the tall word
LongList ==
  [i \in 1..12 |->
     IF i <= 10 THEN SegWord("s", i, 0, 1)
     ELSE IF i = 11 THEN SegWord("t", 11, 0, 20)
     ELSE SegWord("u", 0, 21, 1)]

SegInputs == UNION {[1..n -> SegPool] : n \in 0..MaxSegWords} \cup {LongList}

InitSeg ==
  /\ NoPipeline
  /\ pc = "seg_input"
  /\ fn_in \in SegInputs
  /\ fn_out = <<>>

\* separate_rows_by_vertical_gap(cell_words)
CallSeparateRows ==
  /\ pc = "seg_input"
  /\ pc' = "segmented"
  /\ fn_out' = separate_rows_by_vertical_gap(fn_in)
  /\ UNCHANGED <<fn_in, PipelineVars>>

NextSeg == CallSeparateRows

SpecSeg == InitSeg /\ [][NextSeg]_vars

\* a source row with a marked cell, spanning y 20..40: the bbox on the marked
\* cell, or on another cell of the row
MarkedRowPool ==
  { <<Cell(<<0, 20, 4, 40>>, MarkPrefix \o T_two), NoneCell>>,
    <<Cell(NoBox, MarkPrefix \o T_two), Cell(<<0, 20, 4, 40>>, T_y)>> }

\* page words around that row: two on its first line, a zero-width word on a
\* lower line, a word below the row, and a word right of every column that
\* ends within the tolerance above the row
RowWordPool ==
  << Word(<<"a">>, 0, 23, 1, 26),
     Word(<<"b">>, 3, 23, 4, 26),
     Word(<<"c">>, 2, 31, 2, 34),
     Word(<<"d">>, 1, 50, 3, 53),
     Word(<<"e">>, 8, 17, 9, 19) >>

PickRowWords(S) ==
  LET Test(w) == \E i \in S : RowWordPool[i] = w
  IN SelectSeq(RowWordPool, Test)

InitRow ==
  /\ NoPipeline
  /\ pc = "row_input"
  /\ \E row_cells \in MarkedRowPool, cb \in BoundaryLists, S \in SUBSET DOMAIN RowWordPool :
       fn_in = [row_cells |-> row_cells, column_boundaries |-> cb,
                page_words |-> PickRowWords(S)]
  /\ fn_out = <<>>

\* one iteration of the loop of src 164-324 on a row with a marked cell
CallMarkedRow ==
  /\ pc = "row_input"
  /\ pc' = "row_assembled"
  /\ fn_out' =
       LET collected == WordsInSpan(fn_in.page_words, RowMinY(fn_in.row_cells),
                                    RowMaxY(fn_in.row_cells))
       IN [collected |-> collected,
           sub_rows |-> separate_rows_by_vertical_gap(collected),
           entries |-> RowEntries(fn_in.row_cells, fn_in.column_boundaries,
                                  fn_in.page_words, 0)]
  /\ UNCHANGED <<fn_in, PipelineVars>>

NextRow == CallMarkedRow

SpecRow == InitRow /\ [][NextRow]_vars

\* ------------------------------------------------------------- properties
InPipeline == pc \in {"scan", "end_table", "done", "error"}

\* the table being scanned
CurrentTable == tables[table_idx + 1]

\* rows of the current table whose header test has been made
ScannedRows ==
  IF pc = "scan" THEN row_idx
  ELSE IF pc = "error" THEN row_idx + 1
  ELSE Len(CurrentTable)

\* a non-empty cell text with a colon followed, after optional whitespace,
\* by a non-whitespace character
HasMetadataCell(row_cells) ==
  \E i \in DOMAIN row_cells :
    /\ ~row_cells[i].none
    /\ row_cells[i].text # <<>>
    /\ MetadataPattern(row_cells[i].text)

KeywordCount(row_cells) == MatchedKeywordCount(RowTextContent(row_cells))

\* indices below n of the rows that qualify as header
QualifyingRows(table_rows, n) ==
  {i \in 0..(n - 1) :
     KeywordCount(table_rows[i + 1]) >= 3 /\ ~HasMetadataCell(table_rows[i + 1])}

MaxOf(S) == CHOOSE x \in S : \A y \in S : x >= y

MinOf(S) == CHOOSE x \in S : \A y \in S : x <= y

\* C1: at every point of the scan of a table the header index is the largest
\* index among the rows scanned so far that qualify (keyword count >= 3 and no
\* metadata cell), and -1 when none of them qualifies.
C1_LastQualifyingRowWins ==
  InPipeline =>
    LET Q == QualifyingRows(CurrentTable, ScannedRows)
    IN /\ header_found_in_table = (Q # {})
       /\ header_row_index = IF Q = {} THEN -1 ELSE MaxOf(Q)

\* a fully scanned table with two or more qualifying rows
C1_Witness ==
  /\ pc = "end_table"
  /\ Cardinality(QualifyingRows(CurrentTable, Len(CurrentTable))) >= 2
  /\ header_row_index = MaxOf(QualifyingRows(CurrentTable, Len(CurrentTable)))

\* C2: the header index never points to a row that has a cell matching the
\* metadata pattern, whatever that row's keyword count.
C2_MetadataRowNeverHeader ==
  (InPipeline /\ header_row_index # -1) =>
    ~HasMetadataCell(CurrentTable[header_row_index + 1])

\* a scanned table holding a metadata row with three keywords, header elsewhere
C2_Witness ==
  /\ pc = "end_table"
  /\ header_row_index # -1
  /\ \E i \in DOMAIN CurrentTable :
       HasMetadataCell(CurrentTable[i]) /\ KeywordCount(CurrentTable[i]) >= 3

\* create_structured_table was called with a header that yields column boundaries
ValidCall ==
  /\ InPipeline
  /\ cst_call.called
  /\ cst_call.header_row_index >= 0
  /\ cst_call.header_row_index < Len(cst_call.table_rows)
  /\ ColumnBoundaries(cst_call.table_rows[cst_call.header_row_index + 1]) # <<>>

CallBoundaries ==
  ColumnBoundaries(cst_call.table_rows[cst_call.header_row_index + 1])

NoRowMarked(table_rows) == \A i \in DOMAIN table_rows : ~RowHasMarked(table_rows[i])

\* some cell of the row has text with a non-whitespace character
RowHasText(row_cells) ==
  \E i \in DOMAIN row_cells : ~row_cells[i].none /\ NonBlank(row_cells[i].text)

\* C3 as stated: with a valid header and no marked cell, the result has exactly
\* N rows, none all-blank, all from the cell-form mapping.
C3_ExactlyNRows ==
  (ValidCall /\ NoRowMarked(cst_call.table_rows)) =>
    /\ Len(cst_call.result) = Len(cst_call.table_rows)
    /\ \A k \in DOMAIN cst_call.result : AnyNonBlank(cst_call.result[k])
    /\ \A k \in DOMAIN cst_call.result : ~cst_call.rows_with_positions[k].marked

\* C3 amended: with a valid header and no marked cell, the result has exactly
\* one row for every source row that has some non-whitespace cell text (rows
\* whose texts are all empty, blank or null give none), no result row is
\* all-blank, and each is the cell-form mapping of its source row's cells.
C3_OneRowPerTextRow ==
  (ValidCall /\ NoRowMarked(cst_call.table_rows)) =>
    LET rwp == cst_call.rows_with_positions
        text_rows == {i \in 0..(Len(cst_call.table_rows) - 1) :
                        RowHasText(cst_call.table_rows[i + 1])}
    IN /\ Len(cst_call.result) = Cardinality(text_rows)
       /\ {rwp[k].src : k \in DOMAIN rwp} = text_rows
       /\ \A k \in DOMAIN rwp :
            /\ AnyNonBlank(cst_call.result[k])
            /\ ~rwp[k].marked
            /\ cst_call.result[k] =
                 MappedRawRow(cst_call.table_rows[rwp[k].src + 1], CallBoundaries)

\* an unmarked table with a blank row, assembled into fewer rows than it has
C3_Witness ==
  /\ ValidCall
  /\ NoRowMarked(cst_call.table_rows)
  /\ \E i \in DOMAIN cst_call.table_rows : ~RowHasText(cst_call.table_rows[i])
  /\ Len(cst_call.result) >= 1
  /\ Len(cst_call.result) < Len(cst_call.table_rows)

\* no page word was collected for the row's vertical span
NoWordsCollected(row_cells, page_words) ==
  /\ RowHasBox(row_cells)
  /\ WordsInSpan(page_words, RowMinY(row_cells), RowMaxY(row_cells)) = <<>>

\* C4: in an assembled table every source row that has text and a vertical
\* span no page word overlaps has an entry in the output, on the marked path
\* as on the unmarked one.
C4_RowWithoutWordsKept ==
  ValidCall =>
    \A i \in 0..(Len(cst_call.table_rows) - 1) :
      (RowHasText(cst_call.table_rows[i + 1])
         /\ NoWordsCollected(cst_call.table_rows[i + 1], cst_call.page_words))
      => \E k \in DOMAIN cst_call.rows_with_positions :
           cst_call.rows_with_positions[k].src = i

\* some page word was collected for the row's vertical span
RowHasWords(row_cells, page_words) ==
  /\ RowHasBox(row_cells)
  /\ WordsInSpan(page_words, RowMinY(row_cells), RowMaxY(row_cells)) # <<>>

\* C5 as stated: the text of every cell with a null bbox and non-empty text is
\* found in column 0 of an output row of its source row, for every row, with
\* or without a marked cell.  Stated for the cells that hold a non-whitespace
\* character and are not themselves marked, in rows for which page words were
\* collected, so that the rows C4 is about do not decide it.
C5_NullBoxTextInColumn0 ==
  ValidCall =>
    \A i \in 0..(Len(cst_call.table_rows) - 1) :
      \A j \in DOMAIN cst_call.table_rows[i + 1] :
        LET cell == cst_call.table_rows[i + 1][j]
        IN (/\ ~HasBox(cell)
            /\ ~cell.none
            /\ NonBlank(cell.text)
            /\ ~StartsWith(cell.text, MarkTag)
            /\ RowHasWords(cst_call.table_rows[i + 1], cst_call.page_words)) =>
             \E k \in DOMAIN cst_call.rows_with_positions :
               /\ cst_call.rows_with_positions[k].src = i
               /\ Contains(cst_call.rows_with_positions[k].row[1], cell.text)

\* C5 amended: in every row that contains no marked cell, the text of every
\* cell with a null bbox and text holding a non-whitespace character is found
\* in column 0 of the output row mapped from that row.
C5_NullBoxTextOfUnmarkedRows ==
  ValidCall =>
    \A i \in 0..(Len(cst_call.table_rows) - 1) :
      \A j \in DOMAIN cst_call.table_rows[i + 1] :
        LET cell == cst_call.table_rows[i + 1][j]
        IN (/\ ~RowHasMarked(cst_call.table_rows[i + 1])
            /\ ~HasBox(cell)
            /\ ~cell.none
            /\ NonBlank(cell.text)) =>
             \E k \in DOMAIN cst_call.rows_with_positions :
               /\ cst_call.rows_with_positions[k].src = i
               /\ ~cst_call.rows_with_positions[k].marked
               /\ Contains(cst_call.rows_with_positions[k].row[1], cell.text)

\* an assembled table with an unmarked row whose null-bbox cell has text
C5_Witness ==
  /\ ValidCall
  /\ \E i \in 0..(Len(cst_call.table_rows) - 1) :
       /\ ~RowHasMarked(cst_call.table_rows[i + 1])
       /\ \E j \in DOMAIN cst_call.table_rows[i + 1] :
            /\ ~HasBox(cst_call.table_rows[i + 1][j])
            /\ ~cst_call.table_rows[i + 1][j].none
            /\ NonBlank(cst_call.table_rows[i + 1][j].text)
            /\ \E k \in DOMAIN cst_call.rows_with_positions :
                 /\ cst_call.rows_with_positions[k].src = i
                 /\ cst_call.rows_with_positions[k].row[1]
                      = cst_call.table_rows[i + 1][j].text

\* C6: header detection, marking and assembly never raise an error.
C6_NeverRaises == pc # "error"

\* C7: no cell text ever begins with the doubled prefix.
C7_NoDoublePrefix ==
  \A t \in DOMAIN tables : \A r \in DOMAIN tables[t] : \A c \in DOMAIN tables[t][r] :
    ~StartsWith(tables[t][r][c].text, MarkPrefix \o MarkPrefix)

\* width of the horizontal overlap of two spans, 0 when they do not overlap
OverlapWidth(x0, x1, c0, c1) == Max(0, Min(x1, c1) - Max(x0, c0))

\* the four criteria of the word-form column mapping, for column (c0, c1)
MeetsCriterion(x0, x1, c0, c1) ==
  \/ x1 - x0 > 0 /\ 2 * OverlapWidth(x0, x1, c0, c1) > x1 - x0
  \/ c1 - c0 > 0 /\ 2 * OverlapWidth(x0, x1, c0, c1) > c1 - c0
  \/ x0 >= c0 /\ x1 <= c1
  \/ x0 + x1 >= 2 * c0 /\ x0 + x1 <= 2 * c1

\* 0-based indices of the columns of fn_in that satisfy P
ColumnsWhere(P(_, _)) ==
  {i \in 0..(Len(fn_in.column_boundaries) - 1) :
     P(fn_in.column_boundaries[i + 1][1], fn_in.column_boundaries[i + 1][2])}

\* C8 as stated: the result is the smallest column index meeting one of the
\* four criteria, and -1 exactly when no column meets any.
C8_FirstColumnMeetingCriterion ==
  pc = "word_mapped" =>
    LET Meets(c0, c1) == MeetsCriterion(fn_in.x0, fn_in.x1, c0, c1)
        M == ColumnsWhere(Meets)
    IN fn_out = IF M = {} THEN -1 ELSE MinOf(M)

\* C8 amended: the result is the smallest index of a column that overlaps the
\* word with positive width and meets one of the four criteria, and -1 exactly
\* when no such column exists; a word of positive width fully inside column k
\* that overlaps no other column yields k.
C8_FirstOverlappingColumnMeetingCriterion ==
  pc = "word_mapped" =>
    LET Meets(c0, c1) ==
          /\ OverlapWidth(fn_in.x0, fn_in.x1, c0, c1) > 0
          /\ MeetsCriterion(fn_in.x0, fn_in.x1, c0, c1)
        M == ColumnsWhere(Meets)
        Inside(c0, c1) == fn_in.x0 >= c0 /\ fn_in.x1 <= c1
        Overlaps(c0, c1) == OverlapWidth(fn_in.x0, fn_in.x1, c0, c1) > 0
    IN /\ fn_out = IF M = {} THEN -1 ELSE MinOf(M)
       /\ \A k \in ColumnsWhere(Inside) :
            (fn_in.x1 > fn_in.x0 /\ ColumnsWhere(Overlaps) = {k}) => fn_out = k

\* a word of positive width fully inside the second column that does not
\* overlap the first one is found in the second column
C8_Witness ==
  /\ pc = "word_mapped"
  /\ Len(fn_in.column_boundaries) = 2
  /\ fn_in.x1 > fn_in.x0
  /\ fn_in.x0 >= fn_in.column_boundaries[2][1]
  /\ fn_in.x1 <= fn_in.column_boundaries[2][2]
  /\ OverlapWidth(fn_in.x0, fn_in.x1, fn_in.column_boundaries[1][1],
                  fn_in.column_boundaries[1][2]) = 0
  /\ fn_out = 1

\* doubled distance between the centers of the cell and of column (c0, c1)
CenterDistance(x0, x1, c0, c1) == Abs((x0 + x1) - (c0 + c1))

\* C9: a cell with a bbox and text goes to a column of maximum overlap width
\* when some column overlaps it, and otherwise to a column whose center is
\* closest to the cell's center; never to column 0 by default.
C9_BestOverlapThenClosestCenter ==
  pc = "cell_mapped" =>
    LET cb == fn_in.column_boundaries
        cols == 0..(Len(cb) - 1)
        ov(i) == OverlapWidth(fn_in.x0, fn_in.x1, cb[i + 1][1], cb[i + 1][2])
        dist(i) == CenterDistance(fn_in.x0, fn_in.x1, cb[i + 1][1], cb[i + 1][2])
    IN /\ fn_out \in cols
       /\ IF \E i \in cols : ov(i) > 0
          THEN \A i \in cols : ov(fn_out) >= ov(i)
          ELSE \A i \in cols : dist(fn_out) <= dist(i)

\* a cell that overlaps the first column and, more widely, the second
C9_Witness ==
  /\ pc = "cell_mapped"
  /\ Len(fn_in.column_boundaries) >= 2
  /\ fn_out = 1
  /\ OverlapWidth(fn_in.x0, fn_in.x1, fn_in.column_boundaries[1][1],
                  fn_in.column_boundaries[1][2]) > 0
  /\ OverlapWidth(fn_in.x0, fn_in.x1, fn_in.column_boundaries[2][1],
                  fn_in.column_boundaries[2][2])
       > OverlapWidth(fn_in.x0, fn_in.x1, fn_in.column_boundaries[1][1],
                      fn_in.column_boundaries[1][2])

\* the segmenter's input in (top, x0) order
SortedInput == SortByTopX0(fn_in)

\* number of occurrences of w in the sequence ws
Occurrences(ws, w) == Cardinality({i \in DOMAIN ws : ws[i] = w})

SamePermutation(a, b) ==
  /\ Len(a) = Len(b)
  /\ \A i \in DOMAIN a : Occurrences(a, a[i]) = Occurrences(b, a[i])

\* position in SortedInput of the first word of output row k
RowStart(k) == 1 + SumSeq([r \in 1..(k - 1) |-> Len(fn_out[r])])

RowStarts == {RowStart(k) : k \in DOMAIN fn_out}

\* largest bottom among the words of the logical row that is open when the
\* word at position i is examined
RunningMaxBottom(i) ==
  LET S == SortedInput
      from == MaxOf({p \in RowStarts : p <= i - 1})
  IN MaxOf({S[j].bottom : j \in from..(i - 1)})

\* gap > 0.7 x (average positive height of the first up-to-10 sorted words,
\* or 10 when none is positive)
ExceedsThreshold(gap) ==
  LET S == SortedInput
      m == IF Len(S) < 10 THEN Len(S) ELSE 10
      positive == {j \in 1..m : S[j].bottom - S[j].top > 0}
      total == SumSeq([j \in 1..m |->
                         IF j \in positive THEN S[j].bottom - S[j].top ELSE 0])
  IN IF positive = {} THEN gap > 7
     ELSE 10 * gap * Cardinality(positive) > 7 * total

\* the words at top 0, 1, 2 of height 10 and the word at top 20
GapLawExample ==
  <<SegWord("a", 5, 0, 10), SegWord("b", 0, 1, 10), SegWord("c", 3, 2, 10),
    SegWord("d", 1, 20, 10)>>

\* C10: the output rows cut the (top, x0)-sorted words into consecutive runs;
\* a run starts at a word exactly when its top minus the running-maximum
\* bottom of the open row exceeds the threshold; each row holds its run's
\* words in x0 order; the example gives rows of 3 and 1 words.
C10_GapLaw ==
  pc = "segmented" =>
    LET S == SortedInput IN
    /\ SamePermutation(S, fn_in)
    /\ \A i \in 1..(Len(S) - 1) : TopX0LessEq(S[i], S[i + 1])
    /\ (fn_in = <<>>) = (fn_out = <<>>)
    /\ \A k \in DOMAIN fn_out :
         /\ fn_out[k] # <<>>
         /\ SamePermutation(fn_out[k],
                            SubSeq(S, RowStart(k), RowStart(k) + Len(fn_out[k]) - 1))
         /\ \A i \in 1..(Len(fn_out[k]) - 1) : fn_out[k][i].x0 <= fn_out[k][i + 1].x0
    /\ SumSeq([k \in DOMAIN fn_out |-> Len(fn_out[k])]) = Len(S)
    /\ \A i \in 2..Len(S) :
         (i \in RowStarts) = ExceedsThreshold(S[i].top - RunningMaxBottom(i))
    /\ SamePermutation(fn_in, GapLawExample) =>
         (Len(fn_out) = 2 /\ Len(fn_out[1]) = 3 /\ Len(fn_out[2]) = 1)

\* the example, segmented into rows of 3 and 1 words
C10_Witness ==
  /\ pc = "segmented"
  /\ fn_in = GapLawExample
  /\ Len(fn_out) = 2
  /\ Len(fn_out[1]) = 3
  /\ Len(fn_out[2]) = 1

\* the cell carries the '#$ ' prefix
IsMarked(cell) == Truthy(cell) /\ StartsWith(cell.text, MarkPrefix)

\* indices of the rows of the table that hold a marked cell
MarkedRowIndices(table_rows) ==
  {i \in 0..(Len(table_rows) - 1) :
     \E j \in DOMAIN table_rows[i + 1] : IsMarked(table_rows[i + 1][j])}

\* C11: when a table has been fully scanned, every marked cell lies in a row
\* whose index is strictly greater than the table's header index, and a table
\* without header holds no marked cell.
C11_MarksOnlyBelowHeader ==
  (pc = "end_table" /\ passes = 1) =>
    /\ \A i \in MarkedRowIndices(CurrentTable) : i > header_row_index
    /\ ~header_found_in_table => MarkedRowIndices(CurrentTable) = {}

\* the cell text before the marker prefixed it
Unmarked(cell) ==
  IF IsMarked(cell)
  THEN [cell EXCEPT !.text = SubSeq(cell.text, Len(MarkPrefix) + 1, Len(cell.text))]
  ELSE cell

\* source rows A and B of the call: A's vertical span lies entirely above B's
SpanAbove(a, b) ==
  /\ RowHasBox(cst_call.table_rows[a + 1])
  /\ RowHasBox(cst_call.table_rows[b + 1])
  /\ RowMaxY(cst_call.table_rows[a + 1]) <= RowMinY(cst_call.table_rows[b + 1])

\* C12: in the table create_structured_table returns, every output row derived
\* from a source row A precedes every output row derived from a source row B
\* whose vertical span lies entirely below A's span.
C12_OutputInPageOrder ==
  ValidCall =>
    \A k1, k2 \in DOMAIN cst_call.rows_with_positions :
      SpanAbove(cst_call.rows_with_positions[k1].src,
                cst_call.rows_with_positions[k2].src) => k1 < k2

\* C13: during the first marking of a table, a cell for which the word
\* collection of criterion (b) is skipped (no bbox or no text) is marked only
\* when criterion (a) holds for its text: never on a word list or an average
\* width collected for an earlier cell.
C13_GapSumSkippedWithoutCollection ==
  (InPipeline /\ passes = 1) =>
    \A i \in DOMAIN CurrentTable :
      \A j \in DOMAIN CurrentTable[i] :
        (IsMarked(CurrentTable[i][j]) /\ ~CollectsWords(Unmarked(CurrentTable[i][j])))
          => MarkOnContentAndNewlines(Unmarked(CurrentTable[i][j]))

\* the table as the extractor delivered it
OriginalTable(table_rows) ==
  [i \in DOMAIN table_rows |->
     [j \in DOMAIN table_rows[i] |-> Unmarked(table_rows[i][j])]]

\* the scan of the table when it is the first thing print_formatted_output
\* processes, with the same page words
ScannedAlone(table_rows) ==
  ScanTableFrom(OriginalTable(table_rows), 0, FALSE, -1, words, Unbound, UnboundAvg)

\* C14: whatever tables were processed before it, a table ends its scan with
\* the same cells marked as the scan of that table alone, with the same page
\* words, marks.
C14_MarkingIndependentOfEarlierTables ==
  (pc \in {"end_table", "error"} /\ passes = 1) =>
    ScannedAlone(CurrentTable).rows = CurrentTable

\* the words of all sub-rows, one after the other
RECURSIVE Flatten(_)
Flatten(rows) == IF rows = <<>> THEN <<>> ELSE rows[1] \o Flatten(Tail(rows))

\* the cells (entry, column) of the emitted entries whose text holds t
CellsHolding(entries, t) ==
  {kc \in (DOMAIN entries) \X (1..Len(fn_in.column_boundaries)) :
     Contains(entries[kc[1]].row[kc[2]], t)}

\* the first column whose center is nearest to the word's center
NearestColumn(w, cb) ==
  MinOf({i \in 0..(Len(cb) - 1) :
           \A j \in 0..(Len(cb) - 1) :
             CenterDistance(w.x0, w.x1, cb[i + 1][1], cb[i + 1][2])
               <= CenterDistance(w.x0, w.x1, cb[j + 1][1], cb[j + 1][2])})

\* the column the claim gives a word: find_column_for_word's, or the nearest
ExpectedColumn(w, cb) ==
  IF find_column_for_word(w.x0, w.x1, cb) # -1
  THEN find_column_for_word(w.x0, w.x1, cb)
  ELSE NearestColumn(w, cb)

\* number of words in the cells of the emitted entries
EmittedTokens(entries) ==
  SumSeq([k \in DOMAIN entries |->
            SumSeq([c \in DOMAIN entries[k].row |-> TokenCount(entries[k].row[c])])])

\* C15: for a row with a marked cell and a bbox and non-empty column
\* boundaries, the sub-rows of separate_rows_by_vertical_gap hold every word
\* collected for the row's span exactly once, and the entries emitted for the
\* row hold every collected word in exactly one cell, in the column
\* find_column_for_word gives or, when it gives -1, the nearest-center one,
\* and hold nothing else.
C15_WordConservation ==
  pc = "row_assembled" =>
    /\ SamePermutation(Flatten(fn_out.sub_rows), fn_out.collected)
    /\ \A i \in DOMAIN fn_out.collected :
         LET w == fn_out.collected[i]
             held == CellsHolding(fn_out.entries, w.text)
         IN /\ Cardinality(held) = 1
            /\ \A kc \in held : kc[2] - 1 = ExpectedColumn(w, fn_in.column_boundaries)
    /\ EmittedTokens(fn_out.entries) = Len(fn_out.collected)
    /\ \A k \in DOMAIN fn_out.entries : fn_out.entries[k].marked

\* three words collected and one left out, two sub-rows, and a word that
\* find_column_for_word rejects placed by the nearest-center fallback
C15_Witness ==
  /\ pc = "row_assembled"
  /\ Len(fn_out.collected) >= 3
  /\ Len(fn_out.collected) < Len(fn_in.page_words)
  /\ Len(fn_out.sub_rows) >= 2
  /\ \E i \in DOMAIN fn_out.collected :
       /\ find_column_for_word(fn_out.collected[i].x0, fn_out.collected[i].x1,
                               fn_in.column_boundaries) = -1
       /\ CellsHolding(fn_out.entries, fn_out.collected[i].text) # {}

====
